---- MODULE Spec2Model ----
(***************************************************************************)
(* Model of app.py: the Streamlit script that loads three artifacts       *)
(* (model, scaler, columns), reads eight widgets and, when the predict     *)
(* button is pressed, builds a feature dict, scales five numeric columns   *)
(* and calls the regression model.  One script run is one pass through    *)
(* the file; pc is the position of the run inside the prediction block.    *)
(* Floats entered in tenths (mpg 50.0 is 500, engineSize 1.6 is 16).       *)
(***************************************************************************)
EXTENDS Integers, Sequences, FiniteSets, TLC

VARIABLES files, pc, loaded, columns, scaler, model,
          year, mileage, tax, mpg, engineSize,
          selected_model, selected_trans, selected_fuel,
          raw_input, input_df, prediction, display, error,
          nreq, first, interleaved

artifacts == <<loaded, columns, scaler, model>>
widgets == <<year, mileage, tax, mpg, engineSize,
             selected_model, selected_trans, selected_fuel>>
locals == <<raw_input, input_df, prediction>>
history == <<first, interleaved>>
vars == <<files, pc, artifacts, widgets, locals, display, error, nreq, history>>

(* ---------------- bounds ---------------- *)
MaxRequests == 3

(* ---------------- widget domains ---------------- *)
YearDefault == 2018
MileageMin == 0
MileageDefault == 30000
TaxDefault == 150
MpgDefault == 500
EngineSizeDefault == 16

Years == {YearDefault}
Mileages == {MileageMin, MileageDefault}
Taxes == {TaxDefault}
Mpgs == {MpgDefault}
EngineSizes == {EngineSizeDefault}
models == {"Fiesta", "Focus", "Kuga"}
transmissions == {"Automatic", "Manual"}
fuels == {"Diesel", "Petrol"}

num_cols == <<"year", "mileage", "tax", "mpg", "engineSize">>
NumNames == {num_cols[i] : i \in 1..Len(num_cols)}

(* ---------------- Python dict / one-row DataFrame ---------------- *)
(* a dict is the sequence of its <<key, value>> pairs in insertion order *)
Keys(d) == {d[i][1] : i \in 1..Len(d)}
KeyOrder(d) == [i \in 1..Len(d) |-> d[i][1]]
Get(d, k) == d[CHOOSE i \in 1..Len(d) : d[i][1] = k][2]
SetItem(d, k, v) ==
    IF k \in Keys(d)
    THEN [i \in 1..Len(d) |-> IF d[i][1] = k THEN <<k, v>> ELSE d[i]]
    ELSE Append(d, <<k, v>>)

RECURSIVE DictFromKeys(_)
DictFromKeys(cols) ==
    IF cols = <<>> THEN <<>>
    ELSE SetItem(DictFromKeys(SubSeq(cols, 1, Len(cols) - 1)), cols[Len(cols)], 0)

Contains(cols, k) == \E i \in 1..Len(cols) : cols[i] = k

(* ---------------- feature names ---------------- *)
ModelColFocus == "model_Focus"
ModelCol(m) == "model_ " \o m
TransCol(t) == "transmission_" \o t
FuelCol(f) == "fuelType_" \o f

ModelFamily == {ModelColFocus} \cup {ModelCol(m) : m \in models}
TransFamily == {TransCol(t) : t \in transmissions}
FuelFamily == {FuelCol(f) : f \in fuels}

(* ---------------- contents of the three artifact files ---------------- *)
AllFiles == {"model_car.pkl", "scaler_car.pkl", "columns_car.pkl"}

ColsTrain == <<"year", "mileage", "tax", "mpg", "engineSize",
               "model_Focus", "model_ Kuga", "transmission_Manual", "fuelType_Petrol">>
ColsSpace == <<"year", "mileage", "tax", "mpg", "engineSize",
               "model_ Focus", "model_ Kuga", "transmission_Manual", "fuelType_Petrol">>
ColsBoth == <<"year", "mileage", "tax", "mpg", "engineSize",
              "model_Focus", "model_ Focus", "model_ Kuga", "transmission_Manual",
              "fuelType_Petrol">>
ColsNoYear == <<"mileage", "tax", "mpg", "engineSize",
                "model_Focus", "model_ Kuga", "transmission_Manual", "fuelType_Petrol">>
Schemas == {ColsTrain, ColsSpace, ColsBoth, ColsNoYear}

(* a fitted scaler: per-position mean and scale; positive: a transform that *)
(* rejects non-positive data (raises ValueError)                             *)
ScalerMean == <<2017, 23000, 113, 578, 13>>
ScalerScale == <<2, 19000, 62, 101, 4>>
Scalers == {[mean |-> ScalerMean, scale |-> ScalerScale, positive |-> p] : p \in BOOLEAN}
NoScaler == [mean |-> <<>>, scale |-> <<>>, positive |-> FALSE]

(* a fitted regressor: the columns it was fitted on, and whether it was    *)
(* fitted on a DataFrame (then predict validates the column names)         *)
Models == {[fitted |-> ColsTrain, checkNames |-> c] : c \in BOOLEAN}
NoModel == [fitted |-> <<>>, checkNames |-> FALSE]

NoError == [type |-> "none", at |-> "none"]

(* ---------------- scaler.transform and model.predict ---------------- *)
Select(df, cols) == [i \in 1..Len(cols) |-> Get(df, cols[i])]

ScalerRaises(s, row) == s.positive /\ \E i \in 1..Len(row) : row[i] <= 0

ScalerTransform(s, row) ==
    [i \in 1..Len(row) |-> ((row[i] - s.mean[i]) * 100) \div s.scale[i]]

RECURSIVE AssignCols(_, _, _)
AssignCols(df, cols, vals) ==
    IF cols = <<>> THEN df
    ELSE SetItem(AssignCols(df, SubSeq(cols, 1, Len(cols) - 1), SubSeq(vals, 1, Len(vals) - 1)),
                 cols[Len(cols)], vals[Len(vals)])

(* mutant: tax and mpg exchanged in the column list handed to the scaler *)
ScaleFrame_swapped(s, df) ==
    AssignCols(df, <<"year", "mileage", "mpg", "tax", "engineSize">>,
               ScalerTransform(s, Select(df, <<"year", "mileage", "mpg", "tax", "engineSize">>)))

ScaleFrame(s, df) == AssignCols(df, num_cols, ScalerTransform(s, Select(df, num_cols)))

ModelRaises(m, df) ==
    \/ Len(df) # Len(m.fitted)
    \/ m.checkNames /\ KeyOrder(df) # m.fitted

RECURSIVE WeightedSum(_)
WeightedSum(df) ==
    IF df = <<>> THEN 0
    ELSE WeightedSum(SubSeq(df, 1, Len(df) - 1)) + Len(df) * df[Len(df)][2]

ModelPredict(m, df) == WeightedSum(df)

(* ---------------- the script ---------------- *)
RequestSteps == {"init", "numeric", "cat_model", "cat_trans", "cat_fuel",
                 "frame", "scale", "predict"}

Init ==
    /\ files \in SUBSET {"model_car.pkl", "scaler_car.pkl", "columns_car.pkl"}
    /\ pc = "start"
    /\ loaded = FALSE
    /\ columns = <<>>
    /\ scaler = NoScaler
    /\ model = NoModel
    /\ year = YearDefault
    /\ mileage = MileageDefault
    /\ tax = TaxDefault
    /\ mpg = MpgDefault
    /\ engineSize = EngineSizeDefault
    /\ selected_model = "Fiesta"
    /\ selected_trans = "Automatic"
    /\ selected_fuel = "Diesel"
    /\ raw_input = <<>>
    /\ input_df = <<>>
    /\ prediction = <<>>
    /\ display = "none"
    /\ error = NoError
    /\ nreq = 0
    /\ first = <<>>
    /\ interleaved = FALSE

(* mutant: a failed load is ignored and the page is served anyway *)
LoadModels_degraded ==
    /\ pc = "start"
    /\ \E cols \in Schemas, s \in Scalers, m \in Models :
          /\ columns' = cols
          /\ scaler' = s
          /\ model' = m
    /\ loaded' = (files = AllFiles)
    /\ pc' = "idle"
    /\ UNCHANGED <<files, widgets, locals, display, error, nreq, history>>

(* lines 56-69: all three files load, or the run stops *)
LoadModels ==
    /\ pc = "start"
    /\ IF files = AllFiles
       THEN /\ \E cols \in Schemas, s \in Scalers, m \in Models :
                 /\ columns' = cols
                 /\ scaler' = s
                 /\ model' = m
            /\ loaded' = TRUE
            /\ pc' = "idle"
       ELSE /\ pc' = "stopped"
            /\ UNCHANGED artifacts
    /\ UNCHANGED <<files, widgets, locals, display, error, nreq, history>>

(* a page reload after st.stop(): the script runs again from the top *)
Reload ==
    /\ pc = "stopped"
    /\ pc' = "start"
    /\ UNCHANGED <<files, artifacts, widgets, locals, display, error, nreq, history>>

(* a widget changes: the script reruns with the button not pressed *)
ChangeInputs ==
    /\ pc = "idle"
    /\ \E y \in Years, mi \in Mileages, t \in Taxes, mp \in Mpgs, e \in EngineSizes,
          sm \in models, st \in transmissions, sf \in fuels :
          /\ <<y, mi, t, mp, e, sm, st, sf>> # widgets
          /\ year' = y
          /\ mileage' = mi
          /\ tax' = t
          /\ mpg' = mp
          /\ engineSize' = e
          /\ selected_model' = sm
          /\ selected_trans' = st
          /\ selected_fuel' = sf
    /\ raw_input' = <<>>
    /\ input_df' = <<>>
    /\ prediction' = <<>>
    /\ display' = "none"
    /\ error' = NoError
    /\ UNCHANGED <<files, pc, artifacts, nreq, history>>

(* line 217: the button is pressed, the script reruns and enters the block *)
ClickPredict ==
    /\ pc = "idle"
    /\ nreq < MaxRequests
    /\ nreq' = nreq + 1
    /\ pc' = "init"
    /\ raw_input' = <<>>
    /\ input_df' = <<>>
    /\ prediction' = <<>>
    /\ display' = "none"
    /\ error' = NoError
    /\ UNCHANGED <<files, artifacts, widgets, history>>

(* line 226 *)
InitRawInput ==
    /\ pc = "init"
    /\ raw_input' = DictFromKeys(columns)
    /\ pc' = "numeric"
    /\ UNCHANGED <<files, artifacts, widgets, input_df, prediction, display, error,
                   nreq, history>>

(* mutant: tax and mpg assigned to each other's slot *)
NumericAssigned_swapped(d) ==
    SetItem(SetItem(SetItem(SetItem(SetItem(d,
        "year", year), "mileage", mileage), "tax", mpg), "mpg", tax),
        "engineSize", engineSize)

(* lines 229-233 *)
NumericAssigned(d) ==
    SetItem(SetItem(SetItem(SetItem(SetItem(d,
        "year", year), "mileage", mileage), "tax", tax), "mpg", mpg),
        "engineSize", engineSize)

SetNumeric ==
    /\ pc = "numeric"
    /\ raw_input' = NumericAssigned(raw_input)
    /\ pc' = "cat_model"
    /\ UNCHANGED <<files, artifacts, widgets, input_df, prediction, display, error,
                   nreq, history>>

(* mutant: no special case for Focus *)
ModelEncoded_generic(d) ==
    IF Contains(columns, ModelCol(selected_model))
    THEN SetItem(d, ModelCol(selected_model), 1)
    ELSE d

(* mutant: the second test is an if, not an elif *)
ModelEncoded_both(d) ==
    ModelEncoded_generic(IF selected_model = "Focus" /\ Contains(columns, ModelColFocus)
                         THEN SetItem(d, ModelColFocus, 1)
                         ELSE d)

(* lines 236-239 *)
ModelEncoded(d) ==
    IF selected_model = "Focus" /\ Contains(columns, ModelColFocus)
    THEN SetItem(d, ModelColFocus, 1)
    ELSE IF Contains(columns, ModelCol(selected_model))
         THEN SetItem(d, ModelCol(selected_model), 1)
         ELSE d

SetModel ==
    /\ pc = "cat_model"
    /\ raw_input' = ModelEncoded(raw_input)
    /\ pc' = "cat_trans"
    /\ UNCHANGED <<files, artifacts, widgets, input_df, prediction, display, error,
                   nreq, history>>

(* mutant: the slot is assigned without the membership test *)
TransEncoded_unguarded(d) == SetItem(d, TransCol(selected_trans), 1)

(* lines 241-243 *)
TransEncoded(d) ==
    IF Contains(columns, TransCol(selected_trans))
    THEN SetItem(d, TransCol(selected_trans), 1)
    ELSE d

SetTrans ==
    /\ pc = "cat_trans"
    /\ raw_input' = TransEncoded(raw_input)
    /\ pc' = "cat_fuel"
    /\ UNCHANGED <<files, artifacts, widgets, input_df, prediction, display, error,
                   nreq, history>>

(* lines 245-247 *)
FuelEncoded(d) ==
    IF Contains(columns, FuelCol(selected_fuel))
    THEN SetItem(d, FuelCol(selected_fuel), 1)
    ELSE d

SetFuel ==
    /\ pc = "cat_fuel"
    /\ raw_input' = FuelEncoded(raw_input)
    /\ pc' = "frame"
    /\ UNCHANGED <<files, artifacts, widgets, input_df, prediction, display, error,
                   nreq, history>>

(* line 250: the DataFrame is a copy of the dict *)
CreateFrame ==
    /\ pc = "frame"
    /\ input_df' = raw_input
    /\ pc' = "scale"
    /\ UNCHANGED <<files, artifacts, widgets, raw_input, prediction, display, error,
                   nreq, history>>

(* what the run leaves on the page is observed once it ends *)
Observe(disp, pred, err, df) ==
    /\ first' = IF first = <<>>
                THEN <<[inputs |-> widgets, df |-> df, display |-> disp,
                        prediction |-> pred, error |-> err]>>
                ELSE first
    /\ interleaved' = IF first # <<>> /\ first[1].inputs # widgets
                      THEN TRUE ELSE interleaved

(* mutant: no handler, the exception ends the script run and the process *)
Except_crash(e) ==
    /\ pc' = "crashed"
    /\ display' = "none"
    /\ error' = e
    /\ Observe("none", prediction, e, input_df)
    /\ UNCHANGED <<files, artifacts, widgets, locals, nreq>>

(* lines 347-348: the handler of the block *)
Except(e) ==
    /\ pc' = "idle"
    /\ display' = "error"
    /\ error' = e
    /\ Observe("error", prediction, e, input_df)
    /\ UNCHANGED <<files, artifacts, widgets, locals, nreq>>

(* mutant: the cached scaler is refitted on the request's row *)
Scale_refit ==
    /\ pc = "scale"
    /\ input_df' = ScaleFrame(scaler, input_df)
    /\ scaler' = [scaler EXCEPT !.mean = Select(input_df, num_cols)]
    /\ pc' = "predict"
    /\ UNCHANGED <<files, loaded, columns, model, widgets, raw_input, prediction,
                   display, error, nreq, history>>

(* lines 251-252 *)
Scale ==
    /\ pc = "scale"
    /\ IF ScalerRaises(scaler, Select(input_df, num_cols))
       THEN Except([type |-> "ValueError", at |-> "scaler.transform"])
       ELSE /\ input_df' = ScaleFrame(scaler, input_df)
            /\ pc' = "predict"
            /\ UNCHANGED <<files, artifacts, widgets, raw_input, prediction, display,
                           error, nreq, history>>

(* lines 255-267 *)
Predict ==
    /\ pc = "predict"
    /\ IF ModelRaises(model, input_df)
       THEN Except([type |-> "ValueError", at |-> "model.predict"])
       ELSE /\ prediction' = <<ModelPredict(model, input_df)>>
            /\ display' = "price"
            /\ pc' = "idle"
            /\ Observe("price", <<ModelPredict(model, input_df)>>, error, input_df)
            /\ UNCHANGED <<files, artifacts, widgets, raw_input, input_df, error, nreq>>

Next ==
    \/ LoadModels
    \/ Reload
    \/ ChangeInputs
    \/ ClickPredict
    \/ InitRawInput
    \/ SetNumeric
    \/ SetModel
    \/ SetTrans
    \/ SetFuel
    \/ CreateFrame
    \/ Scale
    \/ Predict

Spec == Init /\ [][Next]_vars

TypeOK ==
    /\ pc \in RequestSteps \cup {"start", "stopped", "idle"}
    /\ display \in {"none", "price", "error"}
    /\ nreq \in 0..MaxRequests

(* ---------------- helpers of the properties ---------------- *)
Range(cols) == {cols[i] : i \in 1..Len(cols)}
SchemaHasNumerics == NumNames \subseteq Range(columns)
RequestEnded == pc = "idle" /\ display # "none"
AfterModelEncoding == pc \in {"cat_trans", "cat_fuel", "frame", "scale", "predict"}
                      \/ RequestEnded
EncodingDone == pc \in {"frame", "scale", "predict"} \/ RequestEnded
PreScale == pc \in {"frame", "scale"}
Scaled == pc = "predict" \/ (RequestEnded /\ error.at # "scaler.transform")
Raising ==
    \/ pc = "scale" /\ ScalerRaises(scaler, Select(input_df, num_cols))
    \/ pc = "predict" /\ ModelRaises(model, input_df)
CandModel ==
    IF selected_model = "Focus" /\ Contains(columns, ModelColFocus)
    THEN ModelColFocus ELSE ModelCol(selected_model)
Activated == {CandModel, TransCol(selected_trans), FuelCol(selected_fuel)} \cap Range(columns)
FamilySlot(d, cand, fam) ==
    IF Contains(columns, cand)
    THEN cand \in Keys(d) /\ Get(d, cand) = 1
    ELSE \A k \in Keys(d) \cap fam : Get(d, k) = 0
FocusOnly(d) ==
    /\ ModelColFocus \in Keys(d)
    /\ Get(d, ModelColFocus) = 1
    /\ \A k \in (Keys(d) \cap ModelFamily) \ {ModelColFocus} : Get(d, k) = 0
NumericFromInputs(d) ==
    /\ NumNames \subseteq Keys(d)
    /\ Select(d, num_cols) = <<year, mileage, tax, mpg, engineSize>>
EncodingProceeds ==
    pc \in {"cat_model", "cat_trans", "cat_fuel", "frame"} =>
        /\ pc' \in {"cat_trans", "cat_fuel", "frame", "scale"}
        /\ display' = "none"
        /\ error' = NoError
RaiseCaught ==
    Raising =>
        /\ pc' = "idle"
        /\ display' = "error"
        /\ error'.type # "none"
        /\ UNCHANGED artifacts
ArtifactsKept == loaded => UNCHANGED artifacts
OneHot(d) ==
    \A fam \in {ModelFamily, TransFamily, FuelFamily} :
        /\ \A k \in Keys(d) \cap fam : Get(d, k) \in {0, 1}
        /\ Cardinality({k \in Keys(d) \cap fam : Get(d, k) = 1}) <= 1

(* C1 (as claimed): a request against a schema that lacks one of the five   *)
(* numeric names ends in a SchemaMismatchError raised at the numeric        *)
(* assignment, before a frame is built, scaled or handed to the model.      *)
C1_SchemaMismatchRaised ==
    (RequestEnded /\ ~SchemaHasNumerics) =>
        /\ display = "error"
        /\ error.type = "SchemaMismatchError"
        /\ input_df = <<>>
        /\ prediction = <<>>

C3_UnmatchedNoOpLiteral ==
    /\ [](EncodingDone =>
            /\ FamilySlot(raw_input, ModelCol(selected_model), ModelFamily)
            /\ FamilySlot(raw_input, TransCol(selected_trans), TransFamily)
            /\ FamilySlot(raw_input, FuelCol(selected_fuel), FuelFamily)
            /\ Keys(raw_input) \subseteq Range(columns) \cup NumNames)
    /\ [][EncodingProceeds]_vars

(* C3 (amended): the same, where the candidate of the model family is       *)
(* model_Focus when Focus is selected and the schema has model_Focus, and   *)
(* "model_ <value>" otherwise.                                              *)
C3_UnmatchedNoOp ==
    /\ [](EncodingDone =>
            /\ FamilySlot(raw_input, CandModel, ModelFamily)
            /\ FamilySlot(raw_input, TransCol(selected_trans), TransFamily)
            /\ FamilySlot(raw_input, FuelCol(selected_fuel), FuelFamily)
            /\ Keys(raw_input) \subseteq Range(columns) \cup NumNames)
    /\ [][EncodingProceeds]_vars

C3_Witness ==
    /\ pc = "scale"
    /\ ~Contains(columns, CandModel)
    /\ ~Contains(columns, TransCol(selected_trans))
    /\ Contains(columns, FuelCol(selected_fuel))
    /\ Get(input_df, FuelCol(selected_fuel)) = 1

(* C4: an error raised by scaler.transform or model.predict ends the        *)
(* request with an error message, the script stays ready for the next       *)
(* request, and the loaded schema, scaler and model are what they were.     *)
C4_RecoverableInferenceFailure ==
    /\ [][RaiseCaught]_vars
    /\ [](display = "error" => pc = "idle" /\ loaded)

C4_Witness ==
    /\ first # <<>>
    /\ first[1].display = "error"
    /\ pc = "idle"
    /\ display = "price"

(* C5: unless all three artifact files loaded, no request is ever started,  *)
(* no prediction is computed and no price is displayed.                     *)
C5_FatalStartup ==
    /\ files # AllFiles =>
          /\ pc \in {"start", "stopped"}
          /\ ~loaded
          /\ prediction = <<>>
          /\ display # "price"
    /\ (pc \in RequestSteps \/ display = "price" \/ prediction # <<>>) =>
          loaded /\ files = AllFiles

C5_Witness ==
    /\ pc = "stopped"
    /\ Cardinality(files) = 2

(* C6: after scaling, the five numeric slots hold the scaler's output on    *)
(* the pre-scale values taken in the order year, mileage, tax, mpg,         *)
(* engineSize; every other slot is unchanged and is 0 or 1; the slots and   *)
(* their order are unchanged.                                               *)
C6_ScalingFrame ==
    Scaled =>
        /\ Select(input_df, num_cols) =
              ScalerTransform(scaler, Select(raw_input, num_cols))
        /\ \A k \in Keys(input_df) \ NumNames :
              Get(input_df, k) = Get(raw_input, k) /\ Get(input_df, k) \in {0, 1}
        /\ KeyOrder(input_df) = KeyOrder(raw_input)

C6_Witness ==
    /\ pc = "predict"
    /\ Select(input_df, num_cols) # Select(raw_input, num_cols)
    /\ \E k \in Keys(input_df) \ NumNames : Get(input_df, k) = 1

(* C7: the loaded artifacts never change; every request starts from the     *)
(* all-zero vector over the schema; a finished request whose inputs equal   *)
(* those of the first finished request shows the same frame and the same    *)
(* result, whatever ran in between.                                         *)
C7_Idempotent ==
    /\ [][ArtifactsKept]_vars
    /\ [](pc = "numeric" => raw_input = [i \in 1..Len(columns) |-> <<columns[i], 0>>])
    /\ []((RequestEnded /\ first # <<>> /\ first[1].inputs = widgets) =>
            /\ input_df = first[1].df
            /\ display = first[1].display
            /\ prediction = first[1].prediction
            /\ error = first[1].error)

C7_Witness ==
    /\ RequestEnded
    /\ nreq >= 3
    /\ interleaved
    /\ first[1].inputs = widgets
    /\ display = "price"

(* C8 (as claimed): at every point of a request the names of the feature    *)
(* vector are exactly the names of the schema.                              *)
C8_SchemaClosure ==
    (pc \in RequestSteps \ {"init"} \/ RequestEnded) =>
        /\ Keys(raw_input) = Range(columns)
        /\ input_df # <<>> => Keys(input_df) = Range(columns)

(* C9 (as claimed): with the five numeric names in the schema, the          *)
(* pre-scale vector holds the inputs in those five slots and 0 in every     *)
(* other slot.                                                              *)
C9_NumericPassthroughAllZero ==
    (PreScale /\ SchemaHasNumerics) =>
        /\ NumericFromInputs(raw_input)
        /\ \A k \in Keys(raw_input) \ NumNames : Get(raw_input, k) = 0

(* C9 (amended): with the five numeric names in the schema, the pre-scale   *)
(* vector holds the inputs in those five slots; every other slot is 0       *)
(* except the slots the categorical encoding activated, which are 1; right  *)
(* after the numeric assignment every other slot is 0.                      *)
C9_NumericPassthrough ==
    /\ (PreScale /\ SchemaHasNumerics) =>
          /\ NumericFromInputs(raw_input)
          /\ \A k \in Keys(raw_input) \ NumNames :
                Get(raw_input, k) = (IF k \in Activated THEN 1 ELSE 0)
          /\ pc = "scale" => input_df = raw_input
    /\ (pc = "cat_model" /\ SchemaHasNumerics) =>
          /\ NumericFromInputs(raw_input)
          /\ \A k \in Keys(raw_input) \ NumNames : Get(raw_input, k) = 0

C9_Witness ==
    /\ pc = "scale"
    /\ SchemaHasNumerics
    /\ Cardinality(Activated) = 3
    /\ mileage = MileageMin

(* C10: the vector handed to the model has, in each of the families         *)
(* model_*, transmission_* and fuelType_*, only 0s and 1s and at most one 1 *)
C10_OneHot ==
    /\ EncodingDone => OneHot(raw_input)
    /\ (pc = "predict" \/ (RequestEnded /\ input_df # <<>>)) => OneHot(input_df)

C10_Witness ==
    /\ pc = "predict"
    /\ selected_model = "Focus"
    /\ {ModelColFocus, ModelCol("Focus")} \subseteq Range(columns)
    /\ Cardinality({k \in Keys(input_df) : k \notin NumNames /\ Get(input_df, k) = 1}) = 3
====
